---- MODULE Spec2Model ----
(***************************************************************************)
(* GoogleCalendarService (src/example-code.ts): the organizer pool         *)
(* allocator.  The state is the content of the cache store behind          *)
(* rskCacheService (the two pool entries "google-calendar-prakerja" and    *)
(* "google-calendar-non-prakerja", and one                                 *)
(* "google-calendar-blocked-organizer:<organizer>" entry per organizer),   *)
(* the clock, and the createEvent request waiting for the calendar         *)
(* provider.  Time is in milliseconds, as Date.getTime() gives it.         *)
(***************************************************************************)
EXTENDS Integers, Sequences, FiniteSets, TLC

VARIABLES
    cache,      \* [main: category key -> entry, block: organizer -> entry]
    now,        \* new Date().getTime()
    inflight,   \* the createEvent call waiting for events.insert, or Null
    lastCall    \* the latest isOrganizerAvailable / blockOrganizer /
                \* cacheOrganizerAndAttendee call (its arguments, what it returned,
                \* when it was made), if no other handler ran since; only a
                \* blockOrganizer call is kept while time passes

vars == <<cache, now, inflight, lastCall>>

----------------------------------------------------------------------------
(* Values                                                                  *)

\* A JavaScript value that may be null is a sequence of length at most one.
Null == <<>>

\* organizer = null (the default of the organizer parameters)
NoOrg == "null"

\* the organizer of an absent pool entry: (undefined)?.organizer
Undefined == "undefined"

OrgA == "orgA"
OrgB == "orgB"
Organizers == {OrgA, OrgB}

\* GCAL_PRAKERJA_ORGS and GCAL_NON_PRAKERJA_ORGS, split at ','
prakerjaOrganizers == <<OrgA, OrgB>>
nonPrakerjaOrganizers == <<OrgB, OrgA>>

\* GCAL_EXT_ATTENDEE_LIMIT (2000 when not configured)
externalAttendeesLimit == 2

\* An address is the sequence of its parts: Tricky is tri@sempurna.com.sg.
Ani == <<"ani", "@", "gmail.com">>
Budi == <<"budi", "@", "yahoo.com">>
Staff == <<"staff", "@", "sempurna.com">>
Tricky == <<"tri", "@", "sempurna.com", ".sg">>
Emails == {Ani, Budi, Staff, Tricky}

\* The attendee lists the requests carry.
Batches == { <<Ani>>, <<Staff, Budi, Tricky, Budi>> }

\* One step of the clock, and how far the clock runs.
TickMs == 24 * 60 * 60 * 1000
MaxTicks == 2

Range(s) == { s[i] : i \in 1..Len(s) }

\* JavaScript truthiness of an organizer string
Truthy(organizer) == organizer \notin {NoOrg, Undefined}

\* email.includes('sempurna.com')
IncludesOwnDomain(email) == \E i \in 1..Len(email) : email[i] = "sempurna.com"

\* A filter that lets every address through.
OutsideDomain_KeepAll(attendees) == attendees

\* attendees.filter(a => !a.email.includes('sempurna.com')), duplicates kept
RECURSIVE OutsideDomain(_)
OutsideDomain(attendees) ==
    IF attendees = <<>> THEN <<>>
    ELSE IF IncludesOwnDomain(Head(attendees)) THEN OutsideDomain(Tail(attendees))
    ELSE <<Head(attendees)>> \o OutsideDomain(Tail(attendees))

\* Array.from(new Set(list)): first occurrences, in insertion order
RECURSIVE ArrayFromSet(_)
ArrayFromSet(list) ==
    IF list = <<>> THEN <<>>
    ELSE LET front == ArrayFromSet(SubSeq(list, 1, Len(list) - 1))
             x == list[Len(list)]
         IN IF x \in Range(front) THEN front ELSE Append(front, x)

\* GoogleCalendarCacheValueDto.fromPayload
CacheValue(organizer, uniqueAttendees) ==
    [organizer |-> organizer, uniqueAttendees |-> uniqueAttendees]

serializeCacheValue(data) == <<"json", data>>

\* JSON.parse(null) is null
deserializeCacheValue(cacheValue) ==
    IF cacheValue = Null THEN Null ELSE <<cacheValue[2]>>

----------------------------------------------------------------------------
(* The cache store: rskCacheService.get / put / delete                     *)

KeyType(isPrakerja) == IF isPrakerja THEN "prakerja" ELSE "non-prakerja"

GetMain(c, keyType) == c.main[keyType]
\* A put that lands under every category's key.
PutMain_EveryKey(c, keyType, value) ==
    [c EXCEPT !.main = [k \in DOMAIN c.main |-> value]]

PutMain(c, keyType, value) == [c EXCEPT !.main[keyType] = value]
DeleteMain(c, keyType) == [c EXCEPT !.main[keyType] = Null]

\* The key `${gcalBlockKey}:undefined` is never written.
GetBlock(c, organizer) == IF organizer = Undefined THEN Null ELSE c.block[organizer]
PutBlock(c, organizer, value) == [c EXCEPT !.block[organizer] = value]
DeleteBlock(c, organizer) == [c EXCEPT !.block[organizer] = Null]

----------------------------------------------------------------------------
(* The service's methods, as functions of the cache and the clock.  Each   *)
(* gives the cache it leaves and the value it returns.                     *)

fetchCurrentOrganizer(c, isPrakerja) ==
    LET googleCalendarCacheValue == GetMain(c, KeyType(isPrakerja))
    IN IF googleCalendarCacheValue # Null
       THEN deserializeCacheValue(googleCalendarCacheValue)
       ELSE Null

\* (await this.fetchCurrentOrganizer(isPrakerja))?.organizer
CurrentOrganizer(c, isPrakerja) ==
    LET cur == fetchCurrentOrganizer(c, isPrakerja)
    IN IF cur = Null THEN Undefined ELSE cur[1].organizer

blockOrganizer(c, organizer, t) ==
    LET c1 == PutBlock(c, organizer, serializeCacheValue(t))
        currentOrganizerPrakerja == CurrentOrganizer(c1, TRUE)
        currentOrganizerNonPrakerja == CurrentOrganizer(c1, FALSE)
    IN IF Truthy(currentOrganizerPrakerja) /\ organizer = currentOrganizerPrakerja
       THEN DeleteMain(c1, "prakerja")
       ELSE IF Truthy(currentOrganizerNonPrakerja) /\ organizer = currentOrganizerNonPrakerja
            THEN DeleteMain(c1, "non-prakerja")
            ELSE c1

\* A lift that already happens at 24 hours sharp.
isBlockedTimeFinished_AtDay(blockedDate, t) == t - blockedDate >= 24 * 60 * 60 * 1000

isBlockedTimeFinished(blockedDate, t) ==
    LET timeDifference == t - blockedDate
        twentyFourHoursInMilliseconds == 24 * 60 * 60 * 1000
    IN timeDifference > twentyFourHoursInMilliseconds

\* A quota test that lets a list of exactly externalAttendeesLimit pass.
ShouldBlock_AboveLimit(c, isPrakerja, organizer) ==
    LET cur == fetchCurrentOrganizer(c, isPrakerja)
    IN /\ cur # Null
       /\ cur[1].organizer = organizer
       /\ Len(cur[1].uniqueAttendees) > externalAttendeesLimit

\* currentOrganizer && currentOrganizer.organizer === organizer
\*   && currentOrganizer.uniqueAttendees.length >= this.externalAttendeesLimit
ShouldBlock(c, isPrakerja, organizer) ==
    LET cur == fetchCurrentOrganizer(c, isPrakerja)
    IN /\ cur # Null
       /\ cur[1].organizer = organizer
       /\ Len(cur[1].uniqueAttendees) >= externalAttendeesLimit

isOrganizerAvailable(c, organizer, t) ==
    LET shouldBlockCurrentOrganizerPrakerja == ShouldBlock(c, TRUE, organizer)
        shouldBlockCurrentOrganizerNonPrakerja == ShouldBlock(c, FALSE, organizer)
    IN IF shouldBlockCurrentOrganizerPrakerja \/ shouldBlockCurrentOrganizerNonPrakerja
       THEN LET c1 == IF ~shouldBlockCurrentOrganizerPrakerja
                      THEN blockOrganizer(c, organizer, t) ELSE c
                c2 == IF ~shouldBlockCurrentOrganizerNonPrakerja
                      THEN blockOrganizer(c1, organizer, t) ELSE c1
            IN [cache |-> c2, ret |-> FALSE]
       ELSE LET cacheValue == GetBlock(c, organizer)
            IN IF cacheValue # Null
               THEN LET blockedDate == deserializeCacheValue(cacheValue)[1]
                    IN IF isBlockedTimeFinished(blockedDate, t)
                       THEN [cache |-> DeleteBlock(c, organizer), ret |-> TRUE]
                       ELSE [cache |-> c, ret |-> FALSE]
               ELSE [cache |-> c, ret |-> TRUE]

\* for await (const org of organizers): the availability checks run in the
\* list's order, each on the cache the one before left.
RECURSIVE AvailableAmong(_, _, _)
AvailableAmong(c, organizers, t) ==
    IF organizers = <<>> THEN [cache |-> c, ret |-> <<>>]
    ELSE LET first == isOrganizerAvailable(c, Head(organizers), t)
             rest == AvailableAmong(first.cache, Tail(organizers), t)
         IN [cache |-> rest.cache,
             ret |-> IF first.ret THEN <<Head(organizers)>> \o rest.ret ELSE rest.ret]

\* A candidate list handed back without the availability checks.
fetchAvailableOrganizers_Unchecked(c, isPrakerja, t) ==
    [cache |-> c,
     ret |-> IF isPrakerja THEN prakerjaOrganizers ELSE nonPrakerjaOrganizers]

fetchAvailableOrganizers(c, isPrakerja, t) ==
    LET organizers == IF isPrakerja THEN prakerjaOrganizers ELSE nonPrakerjaOrganizers
    IN AvailableAmong(c, organizers, t)

\* A recording whose merge keeps only the new addresses.
cacheOrganizerAndAttendee_ForgetOnMerge(c, attendees, organizerReq, isPrakerja) ==
    LET keyType == KeyType(isPrakerja)
        deserializedData == deserializeCacheValue(GetMain(c, keyType))
        stored == deserializedData[1]
        cacheData ==
            IF deserializedData # Null
            THEN IF /\ Truthy(stored.organizer)
                    /\ stored.organizer = organizerReq
                    /\ Len(stored.uniqueAttendees) < externalAttendeesLimit
                 THEN CacheValue(stored.organizer, ArrayFromSet(OutsideDomain(attendees)))
                 ELSE CacheValue(stored.organizer, stored.uniqueAttendees)
            ELSE CacheValue(organizerReq, OutsideDomain(attendees))
    IN [cache |-> PutMain(c, keyType, serializeCacheValue(cacheData)),
        ret |-> cacheData.organizer]

\* A recording that merges whatever the length of the stored list.
cacheOrganizerAndAttendee_MergeAtLimit(c, attendees, organizerReq, isPrakerja) ==
    LET keyType == KeyType(isPrakerja)
        deserializedData == deserializeCacheValue(GetMain(c, keyType))
        stored == deserializedData[1]
        cacheData ==
            IF deserializedData # Null
            THEN IF Truthy(stored.organizer) /\ stored.organizer = organizerReq
                 THEN CacheValue(stored.organizer,
                          ArrayFromSet(stored.uniqueAttendees \o OutsideDomain(attendees)))
                 ELSE CacheValue(stored.organizer, stored.uniqueAttendees)
            ELSE CacheValue(organizerReq, OutsideDomain(attendees))
    IN [cache |-> PutMain(c, keyType, serializeCacheValue(cacheData)),
        ret |-> cacheData.organizer]

\* A recording that starts the entry afresh when the stored list is at the
\* limit.
cacheOrganizerAndAttendee_ReplaceAtLimit(c, attendees, organizerReq, isPrakerja) ==
    LET keyType == KeyType(isPrakerja)
        deserializedData == deserializeCacheValue(GetMain(c, keyType))
        stored == deserializedData[1]
        cacheData ==
            IF deserializedData # Null
            THEN IF Len(stored.uniqueAttendees) >= externalAttendeesLimit
                 THEN CacheValue(organizerReq, OutsideDomain(attendees))
                 ELSE IF Truthy(stored.organizer) /\ stored.organizer = organizerReq
                      THEN CacheValue(stored.organizer,
                               ArrayFromSet(stored.uniqueAttendees \o OutsideDomain(attendees)))
                      ELSE CacheValue(stored.organizer, stored.uniqueAttendees)
            ELSE CacheValue(organizerReq, OutsideDomain(attendees))
    IN [cache |-> PutMain(c, keyType, serializeCacheValue(cacheData)),
        ret |-> cacheData.organizer]

cacheOrganizerAndAttendee(c, attendees, organizerReq, isPrakerja) ==
    LET keyType == KeyType(isPrakerja)
        deserializedData == deserializeCacheValue(GetMain(c, keyType))
        stored == deserializedData[1]
        cacheData ==
            IF deserializedData # Null
            THEN IF /\ Truthy(stored.organizer)
                    /\ stored.organizer = organizerReq
                    /\ Len(stored.uniqueAttendees) < externalAttendeesLimit
                 THEN CacheValue(stored.organizer,
                          ArrayFromSet(stored.uniqueAttendees \o OutsideDomain(attendees)))
                 ELSE CacheValue(stored.organizer, stored.uniqueAttendees)
            ELSE CacheValue(organizerReq, OutsideDomain(attendees))
    IN [cache |-> PutMain(c, keyType, serializeCacheValue(cacheData)),
        ret |-> cacheData.organizer]

----------------------------------------------------------------------------
(* State                                                                   *)

KeyTypes == {"prakerja", "non-prakerja"}
OrganizerArgs == Organizers \cup {NoOrg}

\* No isOrganizerAvailable / blockOrganizer / cacheOrganizerAndAttendee call
\* is the latest thing that happened.
NoCall ==
    [op |-> "none", organizer |-> NoOrg, isPrakerja |-> TRUE, attendees |-> <<>>,
     ret |-> FALSE, at |-> 0, error |-> "none"]

Init ==
    /\ cache = [main |-> [k \in KeyTypes |-> Null],
                block |-> [o \in OrganizerArgs |-> Null]]
    /\ now = 0
    /\ inflight = Null
    /\ lastCall = NoCall

----------------------------------------------------------------------------
(* Actions                                                                 *)

\* What stays of lastCall when time passes or the store drops an entry: a
\* blockOrganizer call, whose suspension is then running.
Remembered == IF lastCall.op = "blockOrganizer" THEN lastCall ELSE NoCall

Tick ==
    /\ inflight = Null
    /\ now < MaxTicks * TickMs
    /\ now' = now + TickMs
    /\ lastCall' = Remembered
    /\ UNCHANGED <<cache, inflight>>

\* The store drops a blocked-organizer entry whose ttl (24 * 60 * 60 seconds,
\* set by blockOrganizer) has run out.  It may also fail to: the action need
\* not be taken.
BlockTtlMs == 24 * 60 * 60 * 1000

EvictBlocked(organizer) ==
    /\ inflight = Null
    /\ GetBlock(cache, organizer) # Null
    /\ now - deserializeCacheValue(GetBlock(cache, organizer))[1] >= BlockTtlMs
    /\ cache' = DeleteBlock(cache, organizer)
    /\ lastCall' = Remembered
    /\ UNCHANGED <<now, inflight>>

IsOrganizerAvailableCall(organizer) ==
    LET r == isOrganizerAvailable(cache, organizer, now)
    IN /\ inflight = Null
       /\ cache' = r.cache
       /\ lastCall' = [NoCall EXCEPT !.op = "isOrganizerAvailable",
                                     !.organizer = organizer, !.ret = r.ret,
                                     !.at = now]
       /\ UNCHANGED <<now, inflight>>

BlockOrganizerCall(organizer) ==
    LET c2 == blockOrganizer(cache, organizer, now)
    IN /\ inflight = Null
       /\ cache' = c2
       /\ lastCall' = [NoCall EXCEPT !.op = "blockOrganizer",
                                     !.organizer = organizer, !.at = now]
       /\ UNCHANGED <<now, inflight>>

FetchAvailableOrganizersCall(isPrakerja) ==
    LET r == fetchAvailableOrganizers(cache, isPrakerja, now)
    IN /\ inflight = Null
       /\ cache' = r.cache
       /\ lastCall' = NoCall
       /\ UNCHANGED <<now, inflight>>

\* A choice that goes to the candidate list whatever the current organizer.
SelectOrganizer_CandidatesFirst(c, organizer, isPrakerja, t) ==
    LET currentOrganizerCached == CurrentOrganizer(c, isPrakerja)
        isAvailable == isOrganizerAvailable(c, currentOrganizerCached, t)
    IN IF ~Truthy(organizer)
       THEN LET organizers == fetchAvailableOrganizers(isAvailable.cache, isPrakerja, t)
            IN [cache |-> organizers.cache,
                organizer |-> IF organizers.ret # <<>> THEN organizers.ret[1]
                              ELSE organizer,
                source |-> "candidates"]
       ELSE [cache |-> isAvailable.cache, organizer |-> organizer, source |-> "given"]

\* createEvent, lines 165-178: the organizer the event is inserted under.
SelectOrganizer(c, organizer, isPrakerja, t) ==
    LET currentOrganizerCached == CurrentOrganizer(c, isPrakerja)
        isAvailable == isOrganizerAvailable(c, currentOrganizerCached, t)
    IN IF ~Truthy(organizer)
       THEN IF Truthy(currentOrganizerCached) /\ isAvailable.ret
            THEN [cache |-> isAvailable.cache, organizer |-> currentOrganizerCached,
                  source |-> "current"]
            ELSE LET organizers == fetchAvailableOrganizers(isAvailable.cache, isPrakerja, t)
                 IN [cache |-> organizers.cache,
                     organizer |-> IF organizers.ret # <<>> THEN organizers.ret[1]
                                   ELSE organizer,
                     source |-> "candidates"]
       ELSE [cache |-> isAvailable.cache, organizer |-> organizer, source |-> "given"]

\* createEvent up to googleCalendar.events.insert
CreateEventSelect(organizer, isPrakerja) ==
    LET s == SelectOrganizer(cache, organizer, isPrakerja, now)
    IN /\ inflight = Null
       /\ cache' = s.cache
       /\ inflight' = <<[organizer |-> s.organizer, isPrakerja |-> isPrakerja,
                         source |-> s.source]>>
       /\ lastCall' = NoCall
       /\ UNCHANGED now

\* events.insert answered with status 200: the attendees are recorded
CreateEventInserted(attendees) ==
    /\ inflight # Null
    /\ LET req == inflight[1]
           r == cacheOrganizerAndAttendee(cache, attendees, req.organizer, req.isPrakerja)
       IN /\ cache' = r.cache
          /\ lastCall' = [NoCall EXCEPT !.op = "cacheOrganizerAndAttendee",
                                        !.organizer = req.organizer,
                                        !.isPrakerja = req.isPrakerja,
                                        !.attendees = attendees, !.at = now]
    /\ inflight' = Null
    /\ UNCHANGED now

\* A catch that lets the usage limit pass without blocking.
CreateEventUsageLimit_NotBlocked ==
    /\ inflight # Null
    /\ lastCall' = [NoCall EXCEPT !.op = "blockOrganizer",
                                  !.organizer = inflight[1].organizer, !.at = now]
    /\ inflight' = Null
    /\ UNCHANGED <<cache, now>>

\* events.insert failed with 'Calendar usage limit': the organizer is blocked
CreateEventUsageLimit ==
    /\ inflight # Null
    /\ cache' = blockOrganizer(cache, inflight[1].organizer, now)
    /\ lastCall' = [NoCall EXCEPT !.op = "blockOrganizer",
                                  !.organizer = inflight[1].organizer, !.at = now]
    /\ inflight' = Null
    /\ UNCHANGED now

\* events.insert failed otherwise, or answered with another status
CreateEventFailed ==
    /\ inflight # Null
    /\ inflight' = Null
    /\ lastCall' = NoCall
    /\ UNCHANGED <<cache, now>>

\* updateEventAttendee reaches cacheOrganizerAndAttendee when events.get and
\* events.update answer (the update with status 200), some new attendee is
\* not yet on the event (eventAttendees: the addresses the event has),
\* newAttendees holds an attendee of type STUDENT (without one,
\* studentAttendee.email throws first) and a training or a program was
\* passed (without one, program.name throws first).
Records(newAttendees, eventAttendees, hasStudent, hasProgram) ==
    /\ newAttendees # <<>>
    /\ \E i \in 1..Len(newAttendees) : newAttendees[i] \notin eventAttendees
    /\ hasStudent
    /\ hasProgram

UpdateEventAttendeeRecorded(newAttendees, organizer, isPrakerja, eventAttendees, hasStudent, hasProgram) ==
    /\ inflight = Null
    /\ Records(newAttendees, eventAttendees, hasStudent, hasProgram)
    /\ LET r == cacheOrganizerAndAttendee(cache, newAttendees, organizer, isPrakerja)
       IN /\ cache' = r.cache
          /\ lastCall' = [NoCall EXCEPT !.op = "cacheOrganizerAndAttendee",
                                        !.organizer = organizer,
                                        !.isPrakerja = isPrakerja,
                                        !.attendees = newAttendees, !.at = now]
    /\ UNCHANGED <<now, inflight>>

\* the provider answered 'Calendar usage limit': the organizer is blocked
UpdateEventAttendeeUsageLimit(organizer) ==
    /\ inflight = Null
    /\ cache' = blockOrganizer(cache, organizer, now)
    /\ lastCall' = [NoCall EXCEPT !.op = "blockOrganizer",
                                  !.organizer = organizer, !.at = now]
    /\ UNCHANGED <<now, inflight>>

\* nothing to add, or the call failed otherwise: the cache is not touched
UpdateEventAttendeeSkipped ==
    /\ inflight = Null
    /\ lastCall' = NoCall
    /\ UNCHANGED <<cache, now, inflight>>

Next ==
    \/ Tick
    \/ \E organizer \in OrganizerArgs : EvictBlocked(organizer)
    \/ \E organizer \in OrganizerArgs : IsOrganizerAvailableCall(organizer)
    \/ \E organizer \in Organizers : BlockOrganizerCall(organizer)
    \/ \E isPrakerja \in BOOLEAN : FetchAvailableOrganizersCall(isPrakerja)
    \/ \E organizer \in OrganizerArgs, isPrakerja \in BOOLEAN :
           CreateEventSelect(organizer, isPrakerja)
    \/ \E attendees \in Batches : CreateEventInserted(attendees)
    \/ CreateEventUsageLimit
    \/ CreateEventFailed
    \/ \E newAttendees \in Batches, organizer \in OrganizerArgs, isPrakerja \in BOOLEAN,
          eventAttendees \in {{}, Emails}, hasStudent \in BOOLEAN, hasProgram \in BOOLEAN :
           UpdateEventAttendeeRecorded(newAttendees, organizer, isPrakerja,
                                       eventAttendees, hasStudent, hasProgram)
    \/ \E organizer \in OrganizerArgs : UpdateEventAttendeeUsageLimit(organizer)
    \/ UpdateEventAttendeeSkipped

Spec == Init /\ [][Next]_vars

----------------------------------------------------------------------------
(* Entries that are not JSON.  The service writes only what JSON.stringify *)
(* gives, but the store is shared: SpecMalformed lets the bytes under a    *)
(* key be damaged and follows the three methods that parse them.           *)

\* bytes JSON.parse cannot read
Malformed == <<"malformed">>

\* JSON.parse(cacheValue) throws a SyntaxError
JSONParseThrows(cacheValue) == cacheValue # Null /\ cacheValue[1] # "json"

\* fetchCurrentOrganizer parses what it got whenever it got something
fetchCurrentOrganizerThrows(c, isPrakerja) ==
    JSONParseThrows(GetMain(c, KeyType(isPrakerja)))

\* cacheOrganizerAndAttendee parses the category's entry before anything else
cacheOrganizerAndAttendeeThrows(c, isPrakerja) ==
    JSONParseThrows(GetMain(c, KeyType(isPrakerja)))

\* isOrganizerAvailable parses both pool entries first and, when the
\* organizer is at the limit in neither, the organizer's blocked entry
isOrganizerAvailableThrows(c, organizer) ==
    \/ fetchCurrentOrganizerThrows(c, TRUE)
    \/ fetchCurrentOrganizerThrows(c, FALSE)
    \/ /\ ~ShouldBlock(c, TRUE, organizer)
       /\ ~ShouldBlock(c, FALSE, organizer)
       /\ JSONParseThrows(GetBlock(c, organizer))

Thrown(op, organizer) ==
    [NoCall EXCEPT !.op = op, !.organizer = organizer, !.error = "SyntaxError"]

DamageMain(keyType) ==
    /\ cache' = PutMain(cache, keyType, Malformed)
    /\ lastCall' = NoCall
    /\ UNCHANGED <<now, inflight>>

DamageBlock(organizer) ==
    /\ cache' = PutBlock(cache, organizer, Malformed)
    /\ lastCall' = NoCall
    /\ UNCHANGED <<now, inflight>>

FetchCurrentOrganizerCall(isPrakerja) ==
    /\ lastCall' = IF fetchCurrentOrganizerThrows(cache, isPrakerja)
                   THEN [Thrown("fetchCurrentOrganizer", NoOrg) EXCEPT !.isPrakerja = isPrakerja]
                   ELSE [NoCall EXCEPT !.op = "fetchCurrentOrganizer",
                                       !.isPrakerja = isPrakerja,
                                       !.ret = fetchCurrentOrganizer(cache, isPrakerja) # Null]
    /\ UNCHANGED <<cache, now, inflight>>

IsOrganizerAvailableOrThrow(organizer) ==
    IF isOrganizerAvailableThrows(cache, organizer)
    THEN /\ lastCall' = Thrown("isOrganizerAvailable", organizer)
         /\ UNCHANGED <<cache, now, inflight>>
    ELSE IsOrganizerAvailableCall(organizer)

CacheOrganizerAndAttendeeOrThrow(newAttendees, organizer, isPrakerja) ==
    IF cacheOrganizerAndAttendeeThrows(cache, isPrakerja)
    THEN /\ lastCall' = [Thrown("cacheOrganizerAndAttendee", organizer)
                             EXCEPT !.isPrakerja = isPrakerja, !.attendees = newAttendees]
         /\ UNCHANGED <<cache, now, inflight>>
    ELSE UpdateEventAttendeeRecorded(newAttendees, organizer, isPrakerja, {}, TRUE, TRUE)

NextMalformed ==
    \/ \E keyType \in KeyTypes : DamageMain(keyType)
    \/ \E organizer \in Organizers : DamageBlock(organizer)
    \/ \E isPrakerja \in BOOLEAN : FetchCurrentOrganizerCall(isPrakerja)
    \/ \E organizer \in Organizers : IsOrganizerAvailableOrThrow(organizer)
    \/ \E newAttendees \in Batches, organizer \in Organizers, isPrakerja \in BOOLEAN :
           CacheOrganizerAndAttendeeOrThrow(newAttendees, organizer, isPrakerja)

SpecMalformed == Init /\ [][NextMalformed]_vars

----------------------------------------------------------------------------
(* Concurrent callers.  Every await of cacheOrganizerAndAttendee and of    *)
(* blockOrganizer is a point where another request may run: SpecRace       *)
(* follows two callers, each making one call, a store round trip at a      *)
(* time.  Here inflight gives each caller's call and how far it got.       *)

Callers == {"c1", "c2"}

\* The attendee lists cacheOrganizerAndAttendee can have stored: a first
\* write, or a first write merged with a second batch.
StoredLists ==
    { OutsideDomain(a) : a \in Batches }
        \cup { ArrayFromSet(OutsideDomain(a) \o OutsideDomain(b)) :
                   a \in { x \in Batches : Len(OutsideDomain(x)) < externalAttendeesLimit },
                   b \in Batches }

\* The pool entries the service can have left under a category's key.
PoolEntries ==
    {Null} \cup { serializeCacheValue(CacheValue(organizer, list)) :
                      organizer \in Organizers, list \in StoredLists }

Idle ==
    [op |-> "none", pc |-> "idle", organizer |-> NoOrg, isPrakerja |-> TRUE,
     attendees |-> <<>>, data |-> Null,
     currentOrganizerPrakerja |-> Undefined, currentOrganizerNonPrakerja |-> Undefined]

InitRace ==
    /\ cache \in { [main |-> m, block |-> [o \in OrganizerArgs |-> Null]] :
                       m \in [KeyTypes -> PoolEntries] }
    /\ now = 0
    /\ inflight = [p \in Callers |-> Idle]
    /\ lastCall = NoCall

\* cacheOrganizerAndAttendee up to `const data = await this.rskCacheService.get(cacheKey)`
RecordRead(p, attendees, organizer, isPrakerja) ==
    /\ inflight[p].pc = "idle"
    /\ inflight' = [inflight EXCEPT ![p] =
           [Idle EXCEPT !.op = "cacheOrganizerAndAttendee", !.pc = "put",
                        !.organizer = organizer, !.isPrakerja = isPrakerja,
                        !.attendees = attendees,
                        !.data = GetMain(cache, KeyType(isPrakerja))]]
    /\ UNCHANGED <<cache, now, lastCall>>

\* A put worked out from what the store holds at the time of the put.
WrittenEntry_FromStore(c, call) ==
    GetMain(cacheOrganizerAndAttendee(c, call.attendees, call.organizer,
                                      call.isPrakerja).cache,
            KeyType(call.isPrakerja))

\* A put that leaves an entry deleted since the read deleted.
WrittenEntry_UnlessDeleted(c, call) ==
    IF call.data # Null /\ GetMain(c, KeyType(call.isPrakerja)) = Null
    THEN Null
    ELSE GetMain(cacheOrganizerAndAttendee(PutMain(c, KeyType(call.isPrakerja), call.data),
                                           call.attendees, call.organizer,
                                           call.isPrakerja).cache,
                 KeyType(call.isPrakerja))

\* What the call puts: cacheData, worked out from the data it read.
WrittenEntry(c, call) ==
    GetMain(cacheOrganizerAndAttendee(PutMain(c, KeyType(call.isPrakerja), call.data),
                                      call.attendees, call.organizer,
                                      call.isPrakerja).cache,
            KeyType(call.isPrakerja))

\* cacheOrganizerAndAttendee from there to its return
RecordWrite(p) ==
    /\ inflight[p].op = "cacheOrganizerAndAttendee"
    /\ inflight[p].pc = "put"
    /\ cache' = PutMain(cache, KeyType(inflight[p].isPrakerja),
                        WrittenEntry(cache, inflight[p]))
    /\ inflight' = [inflight EXCEPT ![p].pc = "done"]
    /\ UNCHANGED <<now, lastCall>>

\* blockOrganizer up to `await this.rskCacheService.put(key, value, ttl)`
BlockPut(p, organizer) ==
    /\ inflight[p].pc = "idle"
    /\ cache' = PutBlock(cache, organizer, serializeCacheValue(now))
    /\ inflight' = [inflight EXCEPT ![p] =
           [Idle EXCEPT !.op = "blockOrganizer", !.pc = "fetchPrakerja",
                        !.organizer = organizer]]
    /\ UNCHANGED <<now, lastCall>>

\* (await this.fetchCurrentOrganizer())?.organizer
BlockFetchPrakerja(p) ==
    /\ inflight[p].op = "blockOrganizer"
    /\ inflight[p].pc = "fetchPrakerja"
    /\ inflight' = [inflight EXCEPT ![p].pc = "fetchNonPrakerja",
                                    ![p].currentOrganizerPrakerja = CurrentOrganizer(cache, TRUE)]
    /\ UNCHANGED <<cache, now, lastCall>>

\* (await this.fetchCurrentOrganizer(false))?.organizer
BlockFetchNonPrakerja(p) ==
    /\ inflight[p].op = "blockOrganizer"
    /\ inflight[p].pc = "fetchNonPrakerja"
    /\ inflight' = [inflight EXCEPT ![p].pc = "delete",
                                    ![p].currentOrganizerNonPrakerja = CurrentOrganizer(cache, FALSE)]
    /\ UNCHANGED <<cache, now, lastCall>>

\* The category blockOrganizer deletes, from what it fetched: "none" if neither.
Deletes(call) ==
    IF Truthy(call.currentOrganizerPrakerja) /\ call.organizer = call.currentOrganizerPrakerja
    THEN "prakerja"
    ELSE IF /\ Truthy(call.currentOrganizerNonPrakerja)
            /\ call.organizer = call.currentOrganizerNonPrakerja
         THEN "non-prakerja"
         ELSE "none"

\* blockOrganizer: the if / else if, and the return
BlockDelete(p) ==
    /\ inflight[p].op = "blockOrganizer"
    /\ inflight[p].pc = "delete"
    /\ cache' = IF Deletes(inflight[p]) = "none" THEN cache
                ELSE DeleteMain(cache, Deletes(inflight[p]))
    /\ inflight' = [inflight EXCEPT ![p].pc = "done"]
    /\ UNCHANGED <<now, lastCall>>

NextRace ==
    \/ \E p \in Callers, attendees \in Batches, organizer \in Organizers, isPrakerja \in BOOLEAN :
           RecordRead(p, attendees, organizer, isPrakerja)
    \/ \E p \in Callers : RecordWrite(p)
    \/ \E p \in Callers, organizer \in Organizers : BlockPut(p, organizer)
    \/ \E p \in Callers : BlockFetchPrakerja(p)
    \/ \E p \in Callers : BlockFetchNonPrakerja(p)
    \/ \E p \in Callers : BlockDelete(p)

SpecRace == InitRace /\ [][NextRace]_vars

----------------------------------------------------------------------------
(* The long run.  SpecLive starts from a store the service has left        *)
(* (pool entries, and blocked-organizer entries written at time 0), and    *)
(* from then on only time passes and isOrganizerAvailable is called: no    *)
(* cacheOrganizerAndAttendee, no usage-limit answer, no expiry in the      *)
(* store.  Both go on for ever.                                            *)

InitLive ==
    /\ cache \in { [main |-> m, block |-> [o \in OrganizerArgs |->
                                              IF o \in blocked
                                              THEN serializeCacheValue(0) ELSE Null]] :
                       m \in [KeyTypes -> PoolEntries], blocked \in SUBSET Organizers }
    /\ now = 0
    /\ inflight = Null
    /\ lastCall = NoCall

\* A blocked-organizer entry one clock step older (entries are dates; a date
\* does not go below 0).
OneTickOlder(cacheValue) ==
    IF cacheValue = Null THEN Null
    ELSE serializeCacheValue(IF cacheValue[2] >= TickMs THEN cacheValue[2] - TickMs ELSE 0)

\* The clock goes on without end.  isBlockedTimeFinished sees only the
\* difference between the clock and a stored date, so once the clock is at
\* MaxTicks * TickMs a step of the clock is kept as a step back of every
\* stored date: a difference of MaxTicks * TickMs stands for that or more.
TickOn ==
    /\ inflight = Null
    /\ IF now < MaxTicks * TickMs
       THEN /\ now' = now + TickMs
            /\ cache' = cache
       ELSE /\ now' = now
            /\ cache' = [cache EXCEPT !.block =
                            [o \in OrganizerArgs |-> OneTickOlder(cache.block[o])]]
    /\ lastCall' = NoCall
    /\ UNCHANGED inflight

NextLive ==
    \/ TickOn
    \/ \E organizer \in Organizers : IsOrganizerAvailableCall(organizer)

SpecLive ==
    /\ InitLive
    /\ [][NextLive]_vars
    /\ WF_vars(TickOn)
    /\ \A organizer \in Organizers : WF_vars(IsOrganizerAvailableCall(organizer))

----------------------------------------------------------------------------
(* The vocabulary of the properties.  These definitions read the cache     *)
(* directly; none of them uses a method of the service.                    *)

\* 24 hours, in milliseconds
Day == 24 * 60 * 60 * 1000

\* The PoolState of a category: present, its organizer, its attendee list.
HasPool(c, k) == c.main[k] # Null
PoolOrganizer(c, k) == c.main[k][2].organizer
PoolAttendees(c, k) == c.main[k][2].uniqueAttendees

\* The SuspensionRecord of an organizer: present, its suspendedAt.
HasSuspension(c, organizer) == c.block[organizer] # Null
SuspendedAt(c, organizer) == c.block[organizer][2]

\* The address belongs to the organization's own domain: it is <local>@sempurna.com.
OwnDomain(email) == Len(email) = 3 /\ email[2] = "@" /\ email[3] = "sempurna.com"

\* The external subset of a list of addresses
ExternalSubset(attendees) == { e \in Range(attendees) : ~OwnDomain(e) }

\* organizer is quota-exhausted for category k
Exhausted(c, k, organizer) ==
    /\ HasPool(c, k)
    /\ PoolOrganizer(c, k) = organizer
    /\ Len(PoolAttendees(c, k)) >= externalAttendeesLimit

\* What isAvailable(organizer) is to answer at time t: not quota-exhausted in
\* any category, and not suspended within the last 24 hours.
AvailableNow(c, organizer, t) ==
    /\ \A k \in KeyTypes : ~Exhausted(c, k, organizer)
    /\ HasSuspension(c, organizer) => t - SuspendedAt(c, organizer) > Day

\* The step is a call recordAssignment(category of lastCall', organizer of
\* lastCall', attendees of lastCall'): unprimed is the state it found.
RecordStep == lastCall'.op = "cacheOrganizerAndAttendee"
RecordKey == KeyType(lastCall'.isPrakerja)

\* The step is a call isAvailable(organizer of lastCall').
AvailableStep == lastCall'.op = "isOrganizerAvailable"

Candidates(isPrakerja) == IF isPrakerja THEN prakerjaOrganizers ELSE nonPrakerjaOrganizers

----------------------------------------------------------------------------
(* C1 *)

\* C1 (as claimed): a recordAssignment(category, B, emails) that finds the
\* category's PoolState with another organizer A leaves a PoolState whose
\* organizer is B and whose attendees are exactly the external subset of
\* emails.
C1_SwitchResetsQuota ==
    [][ ( /\ RecordStep
          /\ lastCall'.organizer \in Organizers
          /\ HasPool(cache, RecordKey)
          /\ PoolOrganizer(cache, RecordKey) \in Organizers
          /\ PoolOrganizer(cache, RecordKey) # lastCall'.organizer )
        => ( /\ HasPool(cache', RecordKey)
             /\ PoolOrganizer(cache', RecordKey) = lastCall'.organizer
             /\ Range(PoolAttendees(cache', RecordKey))
                    = ExternalSubset(lastCall'.attendees) ) ]_vars

----------------------------------------------------------------------------
(* C2 *)

\* C2 (as claimed): whenever isAvailable(org) is called while some category's
\* PoolState has organizer org and at least externalAttendeesLimit attendees
\* (one category, or both at once), a SuspensionRecord for org exists when
\* the call returns.
C2_BreachSuspends ==
    [][ ( /\ AvailableStep
          /\ lastCall'.organizer \in Organizers
          /\ \E k \in KeyTypes : Exhausted(cache, k, lastCall'.organizer) )
        => HasSuspension(cache', lastCall'.organizer) ]_vars

----------------------------------------------------------------------------
(* C3 *)

\* C3: an isAvailable(org) call that finds org's SuspensionRecord in the
\* store (suspend(org) wrote it at time suspendedAt, and the store has not
\* dropped it) at a time <= suspendedAt + 24 hours returns false.
C3_SuspensionBlocks ==
    [][ ( /\ AvailableStep
          /\ HasSuspension(cache, lastCall'.organizer)
          /\ now <= SuspendedAt(cache, lastCall'.organizer) + Day )
        => lastCall'.ret = FALSE ]_vars

\* isAvailable(org) was called exactly 24 hours after suspend(org), with org
\* the organizer of no PoolState, and returned false.
C3_Witness ==
    \E organizer \in Organizers :
        /\ lastCall.op = "isOrganizerAvailable"
        /\ lastCall.organizer = organizer
        /\ lastCall.at = now
        /\ lastCall.ret = FALSE
        /\ HasSuspension(cache, organizer)
        /\ now = SuspendedAt(cache, organizer) + Day
        /\ \A k \in KeyTypes : ~(HasPool(cache, k) /\ PoolOrganizer(cache, k) = organizer)

----------------------------------------------------------------------------
(* C4 *)

\* C4 (as claimed), on the runs in which nothing but the passing of time (and
\* the store dropping entries) separates suspend(org) from the isAvailable(org)
\* call: made more than 24 hours after the suspend, the call returns true and
\* leaves no SuspensionRecord for org.
C4_SuspensionRecovers ==
    [][ ( /\ lastCall.op = "blockOrganizer"
          /\ lastCall.organizer \in Organizers
          /\ AvailableStep
          /\ lastCall'.organizer = lastCall.organizer
          /\ now > lastCall.at + Day )
        => ( /\ lastCall'.ret = TRUE
             /\ ~HasSuspension(cache', lastCall'.organizer) ) ]_vars

----------------------------------------------------------------------------
(* C5 *)

\* C5 (as claimed), call by call: a recordAssignment(c, org, E) that finds no
\* PoolState for c, or finds the PoolState of the same org with fewer than
\* externalAttendeesLimit attendees, none of them among the external addresses
\* of E, leaves uniqueExternalAttendees equal to what was stored plus the
\* external addresses of E, each stored once.
C5_QuotaAccumulates ==
    [][ ( /\ RecordStep
          /\ lastCall'.organizer \in Organizers )
        => LET k == RecordKey
               E == ExternalSubset(lastCall'.attendees)
               before == IF HasPool(cache, k) THEN Range(PoolAttendees(cache, k)) ELSE {}
               room == \/ ~HasPool(cache, k)
                       \/ /\ PoolOrganizer(cache, k) = lastCall'.organizer
                          /\ Len(PoolAttendees(cache, k)) < externalAttendeesLimit
                          /\ before \cap E = {}
           IN room => /\ Range(PoolAttendees(cache', k)) = before \cup E
                      /\ Len(PoolAttendees(cache', k)) = Cardinality(before \cup E) ]_vars

----------------------------------------------------------------------------
(* C6 *)

----------------------------------------------------------------------------
(* C7 *)

\* C7: no PoolState's uniqueExternalAttendees holds an address of the
\* organization's own domain.
C7_NoOwnDomainStored ==
    \A k \in KeyTypes :
        HasPool(cache, k) => \A e \in Range(PoolAttendees(cache, k)) : ~OwnDomain(e)

\* A recordAssignment carrying an own-domain address among external ones has
\* just been merged into a PoolState that already held an address.
C7_Witness ==
    /\ lastCall.op = "cacheOrganizerAndAttendee"
    /\ \E e \in Range(lastCall.attendees) : OwnDomain(e)
    /\ HasPool(cache, KeyType(lastCall.isPrakerja))
    /\ PoolOrganizer(cache, KeyType(lastCall.isPrakerja)) = lastCall.organizer
    /\ PoolAttendees(cache, KeyType(lastCall.isPrakerja)) = <<Ani, Budi>>

----------------------------------------------------------------------------
(* C8 *)

\* C8 (as claimed): the organizer createEvent goes on with, when the caller
\* gave one, is available.
C8_PreferredIsAvailable ==
    (inflight # Null /\ inflight[1].source = "given")
        => AvailableNow(cache, inflight[1].organizer, now)

----------------------------------------------------------------------------
(* C9 *)

\* C9 (as claimed): createEvent never goes on to the calendar provider with an
\* empty organizer after it went through the candidate list: when no
\* candidate is available the call ends there.
C9_NoOrganizerSignalled ==
    (inflight # Null /\ inflight[1].source = "candidates")
        => Truthy(inflight[1].organizer)

----------------------------------------------------------------------------
(* C10 *)

\* C10: when createEvent, given no organizer and finding no available current
\* organizer, takes an organizer from the category's candidate list, it is
\* the earliest candidate that is available; it takes none only if no
\* candidate is available.
C10_EarliestAvailable ==
    (inflight # Null /\ inflight[1].source = "candidates")
        => LET list == Candidates(inflight[1].isPrakerja)
               avail == { i \in 1..Len(list) : AvailableNow(cache, list[i], now) }
           IN IF avail = {}
              THEN inflight[1].organizer = NoOrg
              ELSE \E i \in avail :
                       /\ inflight[1].organizer = list[i]
                       /\ \A j \in avail : i <= j

\* createEvent took the second candidate of the list: the first one was not
\* available.
C10_Witness ==
    /\ inflight # Null
    /\ inflight[1].source = "candidates"
    /\ inflight[1].organizer = Candidates(inflight[1].isPrakerja)[2]
    /\ ~AvailableNow(cache, Candidates(inflight[1].isPrakerja)[1], now)

----------------------------------------------------------------------------
(* C11 *)

\* The step is a call suspend(organizer of lastCall'), made on its own or
\* on the provider's usage-limit answer.
SuspendStep ==
    /\ lastCall'.op = "blockOrganizer"
    /\ lastCall'.at = now'
    /\ now' = now
    /\ cache'.block[lastCall'.organizer] = serializeCacheValue(now)

\* C11 (as claimed): when suspend(org) returns, no category's PoolState has
\* org as its organizer, also when org was the organizer of both.
C11_SuspendClearsPools ==
    [][ ( /\ SuspendStep
          /\ lastCall'.organizer \in Organizers )
        => \A k \in KeyTypes :
               ~(HasPool(cache', k) /\ PoolOrganizer(cache', k) = lastCall'.organizer) ]_vars

----------------------------------------------------------------------------
(* C12 *)

\* C12 (as claimed): suspend(org) has just returned and no time has passed;
\* a second suspend(org) now leaves the store as it is: the same
\* SuspensionRecord and the same PoolState entries.
C12_SuspendIdempotent ==
    ( /\ lastCall.op = "blockOrganizer"
      /\ lastCall.organizer \in Organizers
      /\ lastCall.at = now
      /\ cache.block[lastCall.organizer] = serializeCacheValue(now) )
        => blockOrganizer(cache, lastCall.organizer, now) = cache

----------------------------------------------------------------------------
(* C15 *)

\* C15: an isAvailable(org) call that finds some category's PoolState with
\* organizer org and at least externalAttendeesLimit attendees returns false,
\* whether org has no SuspensionRecord, a running one or one older than 24
\* hours.
C15_ExhaustedIsUnavailable ==
    [][ ( /\ AvailableStep
          /\ \E k \in KeyTypes : Exhausted(cache, k, lastCall'.organizer) )
        => lastCall'.ret = FALSE ]_vars

\* isAvailable(org) has just returned false for an organizer that is at the
\* limit and whose SuspensionRecord is older than 24 hours.
C15_Witness ==
    \E organizer \in Organizers :
        /\ lastCall.op = "isOrganizerAvailable"
        /\ lastCall.organizer = organizer
        /\ lastCall.at = now
        /\ lastCall.ret = FALSE
        /\ \A k \in KeyTypes : Exhausted(cache, k, organizer)
        /\ HasSuspension(cache, organizer)
        /\ now - SuspendedAt(cache, organizer) > Day

----------------------------------------------------------------------------
(* C16 *)

\* C16 (as claimed): more than 24 hours after suspend(org), with nothing
\* but the passing of time in between, isAvailable(org) returns true, and a
\* second isAvailable(org) right after it returns true as well, finds no
\* SuspensionRecord and leaves the store unchanged.
C16_ExpiryLiftTwice ==
    [][ ( /\ lastCall.op = "blockOrganizer"
          /\ lastCall.organizer \in Organizers
          /\ AvailableStep
          /\ lastCall'.organizer = lastCall.organizer
          /\ now > lastCall.at + Day )
        => LET second == isOrganizerAvailable(cache', lastCall'.organizer, now')
           IN /\ lastCall'.ret = TRUE
              /\ ~HasSuspension(cache', lastCall'.organizer)
              /\ second.ret = TRUE
              /\ second.cache = cache' ]_vars

----------------------------------------------------------------------------
(* C18 *)

\* C18 (as claimed): no PoolState's uniqueExternalAttendees holds an address
\* more than once.
C18_NoAddressTwice ==
    \A k \in KeyTypes :
        HasPool(cache, k) =>
            Len(PoolAttendees(cache, k)) = Cardinality(Range(PoolAttendees(cache, k)))

----------------------------------------------------------------------------
(* C20 *)

\* C20: a recordAssignment(category, org, emails) that finds the PoolState of
\* the same org with at least externalAttendeesLimit attendees stores no
\* list that extends it: no address that was not stored is stored afterwards
\* and the list is no longer than before.
C20_NoGrowthAtLimit ==
    [][ ( /\ RecordStep
          /\ lastCall'.organizer \in Organizers
          /\ Exhausted(cache, RecordKey, lastCall'.organizer) )
        => /\ HasPool(cache', RecordKey)
           /\ Range(PoolAttendees(cache', RecordKey))
                  \subseteq Range(PoolAttendees(cache, RecordKey))
           /\ Len(PoolAttendees(cache', RecordKey))
                  <= Len(PoolAttendees(cache, RecordKey)) ]_vars

\* A recordAssignment of ani@gmail.com has just returned for the organizer
\* of a PoolState that holds externalAttendeesLimit entries, none of them
\* ani@gmail.com.
C20_Witness ==
    /\ lastCall.op = "cacheOrganizerAndAttendee"
    /\ lastCall.organizer \in Organizers
    /\ lastCall.attendees = <<Ani>>
    /\ HasPool(cache, KeyType(lastCall.isPrakerja))
    /\ PoolOrganizer(cache, KeyType(lastCall.isPrakerja)) = lastCall.organizer
    /\ Len(PoolAttendees(cache, KeyType(lastCall.isPrakerja))) = externalAttendeesLimit
    /\ Ani \notin Range(PoolAttendees(cache, KeyType(lastCall.isPrakerja)))

----------------------------------------------------------------------------
(* C13 *)

\* The store with every unreadable entry taken out.
WithoutMalformed(c) ==
    [main |-> [k \in KeyTypes |-> IF c.main[k] = Malformed THEN Null ELSE c.main[k]],
     block |-> [o \in OrganizerArgs |-> IF c.block[o] = Malformed THEN Null ELSE c.block[o]]]

\* The call of lastCall' found unreadable bytes under a key it reads.
ReadsMalformed ==
    \/ /\ lastCall'.op \in {"fetchCurrentOrganizer", "cacheOrganizerAndAttendee"}
       /\ cache.main[KeyType(lastCall'.isPrakerja)] = Malformed
    \/ /\ lastCall'.op = "isOrganizerAvailable"
       /\ \/ \E k \in KeyTypes : cache.main[k] = Malformed
          \/ cache.block[lastCall'.organizer] = Malformed

\* C13 (as claimed): a getCurrent, recordAssignment or isAvailable call that
\* finds unreadable bytes under a key it reads raises no error and answers
\* as it would with the key absent: getCurrent gives absent, isAvailable
\* gives what it gives on the store without the unreadable entries, and
\* recordAssignment stores the first write for the category.
C13_MalformedIsAbsent ==
    [][ ReadsMalformed
        => /\ lastCall'.error = "none"
           /\ lastCall'.op = "fetchCurrentOrganizer" => lastCall'.ret = FALSE
           /\ lastCall'.op = "isOrganizerAvailable" =>
                  lastCall'.ret = isOrganizerAvailable(WithoutMalformed(cache),
                                                       lastCall'.organizer, now).ret
           /\ lastCall'.op = "cacheOrganizerAndAttendee" =>
                  /\ HasPool(cache', RecordKey)
                  /\ cache'.main[RecordKey] # Malformed
                  /\ PoolOrganizer(cache', RecordKey) = lastCall'.organizer ]_vars

----------------------------------------------------------------------------
(* C14 *)

\* Caller p's recordAssignment makes its write in this step.
WriteStep(p) ==
    /\ inflight[p].op = "cacheOrganizerAndAttendee"
    /\ inflight[p].pc = "put"
    /\ inflight'[p].pc = "done"

\* The addresses of the PoolState a recordAssignment read (none if absent).
ReadAttendees(call) ==
    IF call.data = Null THEN {} ELSE Range(call.data[2].uniqueAttendees)

\* C14: the write of a recordAssignment loses what was stored in between:
\* an address that came into the category's PoolState after the call read
\* it, and that the call does not carry itself, is not in the PoolState
\* after the call's write.  So of two calls that both read before either
\* writes, the one that writes first loses its attendees.
C14_LostUpdate ==
    [][ \A p \in Callers :
          WriteStep(p) =>
            LET k == KeyType(inflight[p].isPrakerja)
                since == IF HasPool(cache, k)
                         THEN Range(PoolAttendees(cache, k)) \ ReadAttendees(inflight[p])
                         ELSE {}
            IN \A e \in since \ Range(inflight[p].attendees) :
                   e \notin Range(PoolAttendees(cache', k)) ]_vars

\* Two recordAssignment calls for the same category and organizer, with
\* disjoint external attendees, both read the absent PoolState before either
\* wrote; both have returned, and the PoolState lacks the attendees of one.
C14_Witness ==
    \E p, q \in Callers :
        /\ p # q
        /\ inflight[p].op = "cacheOrganizerAndAttendee" /\ inflight[p].pc = "done"
        /\ inflight[q].op = "cacheOrganizerAndAttendee" /\ inflight[q].pc = "done"
        /\ inflight[p].isPrakerja = inflight[q].isPrakerja
        /\ inflight[p].organizer = inflight[q].organizer
        /\ inflight[p].data = Null /\ inflight[q].data = Null
        /\ ExternalSubset(inflight[p].attendees) # {}
        /\ ExternalSubset(inflight[q].attendees) # {}
        /\ ExternalSubset(inflight[p].attendees) \cap ExternalSubset(inflight[q].attendees) = {}
        /\ \A o \in OrganizerArgs : ~HasSuspension(cache, o)
        /\ HasPool(cache, KeyType(inflight[p].isPrakerja))
        /\ \E e \in ExternalSubset(inflight[p].attendees) :
               /\ ~IncludesOwnDomain(e)
               /\ e \notin Range(PoolAttendees(cache, KeyType(inflight[p].isPrakerja)))

----------------------------------------------------------------------------
(* C19 *)

\* Caller p's recordAssignment(category, org, ...) read the PoolState of org
\* with attendees, a suspend(org) has since deleted that PoolState and
\* returned, and p makes its write in this step.
WriteAfterSuspend(p) ==
    /\ WriteStep(p)
    /\ inflight[p].organizer \in Organizers
    /\ inflight[p].data # Null
    /\ inflight[p].data[2].organizer = inflight[p].organizer
    /\ inflight[p].data[2].uniqueAttendees # <<>>
    /\ ~HasPool(cache, KeyType(inflight[p].isPrakerja))
    /\ HasSuspension(cache, inflight[p].organizer)
    /\ \E q \in Callers :
           /\ inflight[q].op = "blockOrganizer"
           /\ inflight[q].pc = "done"
           /\ inflight[q].organizer = inflight[p].organizer

\* C19 (as claimed): after that write the category holds no PoolState of
\* org with an attendee accumulated before the suspend.
C19_SuspendNotUndone ==
    [][ \A p \in Callers :
          WriteAfterSuspend(p) =>
            LET k == KeyType(inflight[p].isPrakerja)
            IN ~( /\ HasPool(cache', k)
                  /\ PoolOrganizer(cache', k) = inflight[p].organizer
                  /\ ReadAttendees(inflight[p]) \cap Range(PoolAttendees(cache', k)) # {} ) ]_vars

\* C19 (amended): that write puts the PoolState back: the category again
\* holds a PoolState of org, with every attendee accumulated before the
\* suspend.
C19_SuspendUndone ==
    [][ \A p \in Callers :
          WriteAfterSuspend(p) =>
            LET k == KeyType(inflight[p].isPrakerja)
            IN /\ HasPool(cache', k)
               /\ PoolOrganizer(cache', k) = inflight[p].organizer
               /\ ReadAttendees(inflight[p]) \subseteq Range(PoolAttendees(cache', k)) ]_vars

\* A recordAssignment(category, org, ...) that read org's PoolState and a
\* suspend(org) that fetched org as the category's organizer and deleted the
\* PoolState have both returned, and the category holds a PoolState of org.
C19_Witness ==
    \E p, q \in Callers :
        /\ inflight[p].op = "cacheOrganizerAndAttendee" /\ inflight[p].pc = "done"
        /\ inflight[p].organizer \in Organizers
        /\ inflight[p].data # Null
        /\ inflight[p].data[2].organizer = inflight[p].organizer
        /\ inflight[q].op = "blockOrganizer" /\ inflight[q].pc = "done"
        /\ inflight[q].organizer = inflight[p].organizer
        /\ Deletes(inflight[q]) = KeyType(inflight[p].isPrakerja)
        /\ HasPool(cache, KeyType(inflight[p].isPrakerja))
        /\ PoolOrganizer(cache, KeyType(inflight[p].isPrakerja)) = inflight[p].organizer
        /\ ReadAttendees(inflight[p])
               \subseteq Range(PoolAttendees(cache, KeyType(inflight[p].isPrakerja)))

----------------------------------------------------------------------------
(* C17 *)

\* C17 (as claimed): with time passing and isAvailable being called for
\* ever, and nothing else happening, every organizer's isAvailable
\* eventually returns true.
C17_EventuallyAvailable ==
    \A organizer \in Organizers :
        <>( /\ lastCall.op = "isOrganizerAvailable"
            /\ lastCall.organizer = organizer
            /\ lastCall.ret = TRUE )

----------------------------------------------------------------------------
(* C21 *)

\* C21: a recordAssignment that finds a PoolState for the category and
\* leaves one with the same organizer leaves every address that was stored
\* in it: uniqueExternalAttendees is a superset of what it was.
C21_QuotaMonotonic ==
    [][ ( /\ RecordStep
          /\ HasPool(cache, RecordKey)
          /\ HasPool(cache', RecordKey)
          /\ PoolOrganizer(cache', RecordKey) = PoolOrganizer(cache, RecordKey) )
        => Range(PoolAttendees(cache, RecordKey))
               \subseteq Range(PoolAttendees(cache', RecordKey)) ]_vars

\* A recordAssignment carrying budi@yahoo.com has just returned for the
\* organizer of a PoolState that held ani@gmail.com: it holds both now.
C21_Witness ==
    /\ lastCall.op = "cacheOrganizerAndAttendee"
    /\ lastCall.organizer \in Organizers
    /\ Budi \in Range(lastCall.attendees)
    /\ Ani \notin Range(lastCall.attendees)
    /\ HasPool(cache, KeyType(lastCall.isPrakerja))
    /\ PoolOrganizer(cache, KeyType(lastCall.isPrakerja)) = lastCall.organizer
    /\ Range(PoolAttendees(cache, KeyType(lastCall.isPrakerja))) = {Ani, Budi}

----------------------------------------------------------------------------
(* C22 *)

\* C22: a recordAssignment(category c, ...) leaves the other category's
\* PoolState and every SuspensionRecord as they were.
C22_RecordTouchesOneCategory ==
    [][ RecordStep
        => /\ \A k \in KeyTypes \ {RecordKey} : cache'.main[k] = cache.main[k]
           /\ cache'.block = cache.block ]_vars

\* A recordAssignment has just written a category's PoolState while the
\* other category holds a PoolState with another content and an organizer
\* is suspended.
C22_Witness ==
    /\ lastCall.op = "cacheOrganizerAndAttendee"
    /\ lastCall.organizer \in Organizers
    /\ \A k \in KeyTypes : HasPool(cache, k)
    /\ cache.main["prakerja"] # cache.main["non-prakerja"]
    /\ PoolOrganizer(cache, KeyType(lastCall.isPrakerja)) = lastCall.organizer
    /\ \E organizer \in Organizers : HasSuspension(cache, organizer)

----------------------------------------------------------------------------
(* C23 *)

\* The step is the suspend of an organizer (organizer of lastCall'), as
\* createEvent and updateEventAttendee make it when the provider answers
\* with the usage limit.
UsageLimitStep ==
    /\ lastCall'.op = "blockOrganizer"
    /\ lastCall' # lastCall

\* C23: when the provider rejects a createEvent or an updateEventAttendee
\* with the usage limit, the organizer of the operation has a
\* SuspensionRecord of that moment afterwards and no PoolState has gained
\* anything (each is as it was, or deleted); and an isAvailable for that
\* organizer made up to 24 hours later, while the store holds the record,
\* returns false.
C23_UsageLimitSuspends ==
    [][ /\ UsageLimitStep
            => /\ HasSuspension(cache', lastCall'.organizer)
               /\ SuspendedAt(cache', lastCall'.organizer) = now
               /\ \A k \in KeyTypes : cache'.main[k] \in {cache.main[k], Null}
        /\ ( /\ lastCall.op = "blockOrganizer"
             /\ AvailableStep
             /\ lastCall'.organizer = lastCall.organizer
             /\ now <= lastCall.at + Day
             /\ HasSuspension(cache, lastCall.organizer) )
            => lastCall'.ret = FALSE ]_vars

\* The provider has just rejected an operation of an organizer with the
\* usage limit: the organizer is suspended as of now, while the PoolState of
\* another organizer is still there.
C23_Witness ==
    /\ lastCall.op = "blockOrganizer"
    /\ lastCall.organizer \in Organizers
    /\ lastCall.at = now
    /\ inflight = Null
    /\ HasSuspension(cache, lastCall.organizer)
    /\ SuspendedAt(cache, lastCall.organizer) = now
    /\ \A k \in KeyTypes :
           ~(HasPool(cache, k) /\ PoolOrganizer(cache, k) = lastCall.organizer)
    /\ \E k \in KeyTypes : HasPool(cache, k)

----------------------------------------------------------------------------
(* C24 *)

\* C24: a createEvent given no organizer, for a category whose PoolState
\* names an organizer that is available, goes on with that organizer,
\* whichever candidates are available.
C24_CurrentIsSticky ==
    [][ ( /\ inflight = Null
          /\ inflight' # Null
          /\ inflight'[1].source # "given"
          /\ HasPool(cache, KeyType(inflight'[1].isPrakerja))
          /\ Truthy(PoolOrganizer(cache, KeyType(inflight'[1].isPrakerja)))
          /\ AvailableNow(cache, PoolOrganizer(cache, KeyType(inflight'[1].isPrakerja)), now) )
        => /\ inflight'[1].source = "current"
           /\ inflight'[1].organizer
                  = PoolOrganizer(cache, KeyType(inflight'[1].isPrakerja)) ]_vars

\* createEvent goes on with the category's current organizer, the second
\* of the candidate list, while the first candidate is available.
C24_Witness ==
    /\ inflight # Null
    /\ inflight[1].source = "current"
    /\ inflight[1].organizer = Candidates(inflight[1].isPrakerja)[2]
    /\ AvailableNow(cache, Candidates(inflight[1].isPrakerja)[1], now)

====
